---- MODULE Spec2Model ----
(***************************************************************************)
(* init-tp: a command-line scaffolder (src/src/index.ts, lines 1-237).     *)
(* One run of the program: the commander action validates the flags,       *)
(* initProject asks the missing questions, merges flags and answers,       *)
(* renders the files, writes them and optionally runs the install command. *)
(*                                                                         *)
(* Text that the code inspects character by character (the project name,   *)
(* the working directory, paths, error messages) is a sequence of          *)
(* one-character strings.  Text that the code only compares as a whole     *)
(* (compiler, package manager, scripts) is a TLA+ string.                  *)
(***************************************************************************)
EXTENDS Integers, Sequences, FiniteSets, TLC

(* ---------------------------- bounds ---------------------------------- *)

\* how many times the projectName validator may reject an input in one run
MaxInvalidInputs == 1

(* ------------------------- JavaScript values -------------------------- *)

Undefined == [tag |-> "undefined"]

Str(s) == [tag |-> "string", s |-> s]

Bool(b) == [tag |-> "boolean", b |-> b]

\* truthiness of a string-or-undefined whose text is a TLA+ string
Truthy(v) == v.tag = "string" /\ v.s # ""

\* truthiness of a string-or-undefined whose text is a character sequence
TruthyChars(v) == v.tag = "string" /\ Len(v.s) > 0

\* a ?? b
Coalesce(a, b) == IF a = Undefined THEN b ELSE a

(* ------------------------------ text ----------------------------------- *)

LowerCase ==
    {"a","b","c","d","e","f","g","h","i","j","k","l","m",
     "n","o","p","q","r","s","t","u","v","w","x","y","z"}

Digits == {"0","1","2","3","4","5","6","7","8","9"}

WhiteSpace == {" "}

\* /^[a-z0-9-]+$/.test(input)
MatchesNameRegex(input) ==
    /\ Len(input) > 0
    /\ \A i \in 1..Len(input) : input[i] \in LowerCase \cup Digits \cup {"-"}

\* !input.trim()
TrimIsEmpty(input) == \A i \in 1..Len(input) : input[i] \in WhiteSpace

\* validate(input) === true
validate(input) == ~TrimIsEmpty(input) /\ MatchesNameRegex(input)

\* haystack.includes(needle)
Includes(haystack, needle) ==
    \E i \in 0..(Len(haystack) - Len(needle)) :
        \A j \in 1..Len(needle) : haystack[i + j] = needle[j]

IsPrefix(p, s) == Len(p) <= Len(s) /\ \A i \in 1..Len(p) : s[i] = p[i]

SIGINT == <<"S","I","G","I","N","T">>

\* path.join(dir, seg) for a segment without separators or dots: an empty
\* segment is dropped
Join(dir, seg) == IF Len(seg) = 0 THEN dir ELSE dir \o <<"/">> \o seg

(* --------------------------- program constants ------------------------- *)

validCompilers == {"tsc", "esbuild", "swc"}

validPackageManagers == {"npm", "pnpm"}

F_package_json == <<"p","a","c","k","a","g","e",".","j","s","o","n">>

F_tsconfig_json == <<"t","s","c","o","n","f","i","g",".","j","s","o","n">>

F_src == <<"s","r","c">>

F_index_ts == <<"i","n","d","e","x",".","t","s">>

F_gitignore == <<".","g","i","t","i","g","n","o","r","e">>

F_readme == <<"R","E","A","D","M","E",".","m","d">>

F_npmrc == <<".","n","p","m","r","c">>

F_pnpm_workspace ==
    <<"p","n","p","m","-","w","o","r","k","s","p","a","c","e",".","y","a","m","l">>

(* ------------------------------ inputs --------------------------------- *)

N_demo == <<"d","e","m","o">>

N_upper == <<"M","y"," ","A","p","p">>

N_blank == <<" ">>

\* values of the positional [projectName]
ArgNames == {Undefined, Str(<<>>), Str(N_demo), Str(N_upper), Str(SIGINT)}

\* values of --compiler
ArgCompilers == {Undefined, Str(""), Str("tsc"), Str("esbuild"), Str("swc"), Str("rustc")}

\* values of --package-manager
ArgPackageManagers == {Undefined, Str(""), Str("npm"), Str("pnpm"), Str("yarn")}

\* values of --install
ArgInstall == {Undefined, Bool(TRUE)}

\* process.cwd()
Cwds == {<<"/","w">>, <<"/">> \o SIGINT}

\* what the user may type at the projectName question
TypedNames == {<<>>, N_blank, N_demo, N_upper}

Q_projectName == "projectName"

Q_compiler == "compiler"

Q_packageManager == "packageManager"

Q_runInstall == "runInstall"

(* ------------------------------ errors --------------------------------- *)

\* inquirer rejects the prompt promise when the user presses Ctrl+C
ExitPromptError ==
    [name |-> "ExitPromptError",
     message |-> <<"f","o","r","c","e"," ","c","l","o","s","e","d"," ">> \o SIGINT]

\* any other failure of the prompt (for example no TTY)
PromptFailure ==
    [name |-> "Error", message |-> <<"p","r","o","m","p","t"," ","f","a","i","l","e","d">>]

\* Node's fs errors name the path in their message
FsError(path) ==
    [name |-> "Error",
     message |-> <<"E","A","C","C","E","S",":"," ">> \o path]

NoError == [name |-> "", message |-> <<>>]

(* --------------------------- pure functions ---------------------------- *)

\* action: allOptionsProvided = projectName && options.compiler
allOptionsProvided(args) == TruthyChars(args.projectName) /\ Truthy(args.compiler)

\* action: finalOptions, with runInstall forced to false in scripted use
finalOptions(args) ==
    [projectName |-> args.projectName,
     compiler |-> args.compiler,
     packageManager |-> args.packageManager,
     runInstall |-> IF allOptionsProvided(args) /\ args.install = Undefined
                    THEN Bool(FALSE)
                    ELSE args.install]

\* initProject: the condition under which the runInstall question is pushed
asksRunInstall(opts) ==
    opts.runInstall = Undefined
    /\ ~(TruthyChars(opts.projectName) /\ Truthy(opts.compiler))

\* initProject: the questions array, in push order
buildQuestions(opts) ==
    (IF ~TruthyChars(opts.projectName) THEN <<Q_projectName>> ELSE <<>>)
    \o (IF ~Truthy(opts.compiler) THEN <<Q_compiler>> ELSE <<>>)
    \o (IF ~Truthy(opts.packageManager) THEN <<Q_packageManager>> ELSE <<>>)
    \o (IF asksRunInstall(opts) THEN <<Q_runInstall>> ELSE <<>>)

NoAnswers ==
    [projectName |-> Undefined, compiler |-> Undefined,
     packageManager |-> Undefined, runInstall |-> Undefined]

\* initProject: finalAnswers = options.x ?? answers.x
mergeAnswers(opts, ans) ==
    [projectName |-> Coalesce(opts.projectName, ans.projectName),
     compiler |-> Coalesce(opts.compiler, ans.compiler),
     packageManager |-> Coalesce(opts.packageManager, ans.packageManager),
     runInstall |-> Coalesce(opts.runInstall, ans.runInstall)]

\* text of a resolved projectName (undefined cannot be joined to a path)
NameChars(v) == IF v.tag = "string" THEN v.s ELSE <<>>

projectDir(dir, fa) == Join(dir, NameChars(fa.projectName))

srcDir(dir, fa) == Join(projectDir(dir, fa), F_src)

getNpxCommand(pm) == IF pm = Str("pnpm") THEN "pnpx init-tp" ELSE "npx init-tp"

buildScript(c) ==
    IF c = Str("tsc") THEN "tsc"
    ELSE IF c = Str("esbuild")
         THEN "esbuild src/index.ts --bundle --platform=node --outfile=dist/index.js"
         ELSE "swc src -d dist"

startScript(c) == IF c = Str("swc") THEN "node dist/src/index.js" ELSE "node dist/index.js"

devScript == "tsx watch src/index.ts"

devDependencies(c) ==
    (IF c = Str("tsc") THEN {"typescript"}
     ELSE IF c = Str("esbuild") THEN {"esbuild"}
          ELSE {"@swc/cli", "@swc/core"})
    \cup {"@types/node", "tsx"}

\* the switch without its pnpm case
getPackageManagerConfig_NoPnpmCase(pm) ==
    [packageManager |-> "npm", packageManagerFiles |-> <<>>]

getPackageManagerConfig(pm) ==
    IF pm = Str("pnpm")
    THEN [packageManager |-> "pnpm", packageManagerFiles |-> <<F_npmrc, F_pnpm_workspace>>]
    ELSE [packageManager |-> "npm", packageManagerFiles |-> <<>>]

renderPackageJson(fa) ==
    [name |-> fa.projectName,
     packageManager |-> getPackageManagerConfig(fa.packageManager).packageManager,
     scripts |-> [start |-> startScript(fa.compiler),
                  build |-> buildScript(fa.compiler),
                  dev |-> devScript],
     devDependencies |-> devDependencies(fa.compiler)]

NoPackageJson ==
    [name |-> Undefined, packageManager |-> "",
     scripts |-> [start |-> "", build |-> "", dev |-> ""],
     devDependencies |-> {}]

\* initProject: the paths written after ensureDir, in statement order
writeOrder(dir, fa) ==
    LET pd == projectDir(dir, fa)
        extra == getPackageManagerConfig(fa.packageManager).packageManagerFiles
    IN  << Join(pd, F_package_json),
           Join(pd, F_tsconfig_json),
           Join(pd, F_gitignore),
           Join(pd, F_readme),
           Join(srcDir(dir, fa), F_index_ts) >>
        \o [i \in 1..Len(extra) |-> Join(pd, extra[i])]

installCommand(pm) ==
    IF pm = Str("npm") THEN "npm install"
    ELSE IF pm = Str("pnpm") THEN "pnpm install"
         ELSE IF pm = Str("yarn") THEN "yarn install"
              ELSE "bun install"

IsTrue(v) == v.tag = "boolean" /\ v.b

\* action: the catch block's exit status
catchStatus(error) ==
    IF error.name = "AbortError" \/ Includes(error.message, SIGINT) THEN 0 ELSE 1

catchOutput(error) ==
    IF error.name = "AbortError" \/ Includes(error.message, SIGINT)
    THEN "Process aborted by user."
    ELSE "Error initializing project:"

(* -------------------------------- state --------------------------------- *)

VARIABLES
    argv,           \* what commander parsed: projectName, compiler, packageManager, install
    cwd,            \* process.cwd()
    pc,             \* where the run is: start, prompt, ensureDir, write, install, exited
    options,        \* the finalOptions passed to initProject
    questions,      \* the questions array given to inquirer.prompt
    qidx,           \* index of the question being asked
    answers,        \* what inquirer has collected so far
    invalidInputs,  \* inputs the projectName validator has rejected
    finalAnswers,   \* the merged configuration
    packageJson,    \* the rendered manifest object
    readmeCommand,  \* the command named in the readme's attribution line
    rendered,       \* the paths initProject writes, in order
    pending,        \* the paths still to be written
    dirs,           \* directories created by this run
    disk,           \* files written by this run
    installRuns,    \* how many times execSync was called
    installCmd,     \* the command given to execSync
    thrown,         \* the error that reached the catch block
    stdout,         \* the lines printed, as a set of tags
    exitCode        \* the process's exit status

vars ==
    <<argv, cwd, pc, options, questions, qidx, answers, invalidInputs, finalAnswers,
      packageJson, readmeCommand, rendered, pending, dirs, disk, installRuns,
      installCmd, thrown, stdout, exitCode>>

inputVars == <<argv, cwd>>

promptVars == <<options, questions, qidx, answers, invalidInputs>>

renderVars == <<finalAnswers, packageJson, readmeCommand, rendered>>

fsVars == <<pending, dirs, disk>>

installVars == <<installRuns, installCmd>>

Init ==
    /\ argv \in [projectName : ArgNames, compiler : ArgCompilers,
                 packageManager : ArgPackageManagers, install : ArgInstall]
    /\ cwd \in Cwds
    /\ pc = "start"
    /\ options = NoAnswers
    /\ questions = <<>>
    /\ qidx = 1
    /\ answers = NoAnswers
    /\ invalidInputs = 0
    /\ finalAnswers = NoAnswers
    /\ packageJson = NoPackageJson
    /\ readmeCommand = ""
    /\ rendered = <<>>
    /\ pending = <<>>
    /\ dirs = {}
    /\ disk = {}
    /\ installRuns = 0
    /\ installCmd = ""
    /\ thrown = NoError
    /\ stdout = {}
    /\ exitCode = 0

(* ------------------------------ the action ----------------------------- *)

invalidCompiler(args) == Truthy(args.compiler) /\ args.compiler.s \notin validCompilers

invalidPackageManager(args) ==
    Truthy(args.packageManager) /\ args.packageManager.s \notin validPackageManagers

\* process.exit(code)
Exit(code, line) ==
    /\ pc' = "exited"
    /\ exitCode' = code
    /\ stdout' = stdout \cup {line}

\* an error propagates to the action's catch block
Throw(error) ==
    /\ thrown' = error
    /\ Exit(catchStatus(error), catchOutput(error))

RejectCompiler ==
    /\ pc = "start"
    /\ invalidCompiler(argv)
    /\ Exit(1, "Invalid compiler")
    /\ UNCHANGED <<inputVars, promptVars, renderVars, fsVars, installVars, thrown>>

RejectPackageManager ==
    /\ pc = "start"
    /\ ~invalidCompiler(argv)
    /\ invalidPackageManager(argv)
    /\ Exit(1, "Invalid package manager")
    /\ UNCHANGED <<inputVars, promptVars, renderVars, fsVars, installVars, thrown>>

\* the flags pass: build finalOptions, enter initProject, build the questions
\* and hand them to inquirer.prompt
StartInit ==
    /\ pc = "start"
    /\ ~invalidCompiler(argv)
    /\ ~invalidPackageManager(argv)
    /\ options' = finalOptions(argv)
    /\ questions' = buildQuestions(finalOptions(argv))
    /\ qidx' = 1
    /\ pc' = "prompt"
    /\ UNCHANGED <<inputVars, answers, invalidInputs, renderVars, fsVars, installVars,
                   thrown, stdout, exitCode>>

(* ------------------------------ prompting ------------------------------ *)

Asking(q) == pc = "prompt" /\ qidx <= Len(questions) /\ questions[qidx] = q

Answer(q, v) ==
    /\ answers' = [answers EXCEPT ![q] = v]
    /\ qidx' = qidx + 1
    /\ UNCHANGED <<inputVars, pc, options, questions, invalidInputs, renderVars, fsVars,
                   installVars, thrown, stdout, exitCode>>

AnswerProjectName ==
    /\ Asking(Q_projectName)
    /\ \E input \in TypedNames :
        /\ validate(input)
        /\ Answer(Q_projectName, Str(input))

\* the validator returns a message and inquirer asks again
RejectProjectName ==
    /\ Asking(Q_projectName)
    /\ invalidInputs < MaxInvalidInputs
    /\ \E input \in TypedNames : ~validate(input)
    /\ invalidInputs' = invalidInputs + 1
    /\ UNCHANGED <<inputVars, pc, options, questions, qidx, answers, renderVars, fsVars,
                   installVars, thrown, stdout, exitCode>>

AnswerCompiler ==
    /\ Asking(Q_compiler)
    /\ \E c \in validCompilers : Answer(Q_compiler, Str(c))

AnswerPackageManager ==
    /\ Asking(Q_packageManager)
    /\ \E p \in validPackageManagers : Answer(Q_packageManager, Str(p))

AnswerRunInstall ==
    /\ Asking(Q_runInstall)
    /\ \E b \in BOOLEAN : Answer(Q_runInstall, Bool(b))

\* Ctrl+C while a question is pending
CancelPrompt ==
    /\ pc = "prompt"
    /\ qidx <= Len(questions)
    /\ Throw(ExitPromptError)
    /\ UNCHANGED <<inputVars, promptVars, renderVars, fsVars, installVars>>

PromptFails ==
    /\ pc = "prompt"
    /\ qidx <= Len(questions)
    /\ Throw(PromptFailure)
    /\ UNCHANGED <<inputVars, promptVars, renderVars, fsVars, installVars>>

(* --------------------------- merge and render --------------------------- *)

Resolve ==
    /\ pc = "prompt"
    /\ qidx > Len(questions)
    /\ LET fa == mergeAnswers(options, answers)
       IN  /\ finalAnswers' = fa
           /\ packageJson' = renderPackageJson(fa)
           /\ readmeCommand' = getNpxCommand(fa.packageManager)
           /\ rendered' = writeOrder(cwd, fa)
           /\ pending' = writeOrder(cwd, fa)
    /\ pc' = "ensureDir"
    /\ UNCHANGED <<inputVars, promptVars, dirs, disk, installVars, thrown, stdout, exitCode>>

(* ----------------------------- materialize ----------------------------- *)

EnsureDir ==
    /\ pc = "ensureDir"
    /\ dirs' = dirs \cup {projectDir(cwd, finalAnswers), srcDir(cwd, finalAnswers)}
    /\ pc' = "write"
    /\ UNCHANGED <<inputVars, promptVars, renderVars, pending, disk, installVars,
                   thrown, stdout, exitCode>>

\* mkdir fails, possibly after the project directory itself was made
EnsureDirFails ==
    /\ pc = "ensureDir"
    /\ dirs' \in {dirs, dirs \cup {projectDir(cwd, finalAnswers)}}
    /\ Throw(FsError(srcDir(cwd, finalAnswers)))
    /\ UNCHANGED <<inputVars, promptVars, renderVars, pending, disk, installVars>>

WriteFile ==
    /\ pc = "write"
    /\ pending # <<>>
    /\ disk' = disk \cup {Head(pending)}
    /\ pending' = Tail(pending)
    /\ pc' = IF Tail(pending) = <<>> THEN "install" ELSE "write"
    /\ UNCHANGED <<inputVars, promptVars, renderVars, dirs, installVars,
                   thrown, stdout, exitCode>>

WriteFileFails ==
    /\ pc = "write"
    /\ pending # <<>>
    /\ Throw(FsError(Head(pending)))
    /\ UNCHANGED <<inputVars, promptVars, renderVars, fsVars, installVars>>

(* ------------------------------- install ------------------------------- *)

Success == "Project initialized"

SkipInstall ==
    /\ pc = "install"
    /\ ~IsTrue(finalAnswers.runInstall)
    /\ Exit(0, Success)
    /\ UNCHANGED <<inputVars, promptVars, renderVars, fsVars, installVars, thrown>>

InstallSucceeds ==
    /\ pc = "install"
    /\ IsTrue(finalAnswers.runInstall)
    /\ installRuns' = installRuns + 1
    /\ installCmd' = installCommand(finalAnswers.packageManager)
    /\ Exit(0, Success)
    /\ UNCHANGED <<inputVars, promptVars, renderVars, fsVars, thrown>>

\* the inner catch without its process.exit(1): the run falls through to the
\* success message
InstallFails_FallsThrough ==
    /\ pc = "install"
    /\ IsTrue(finalAnswers.runInstall)
    /\ installRuns' = installRuns + 1
    /\ installCmd' = installCommand(finalAnswers.packageManager)
    /\ pc' = "exited"
    /\ exitCode' = 0
    /\ stdout' = stdout \cup {"Error running install", Success}
    /\ UNCHANGED <<inputVars, promptVars, renderVars, fsVars, thrown>>

\* execSync throws; the inner catch reports and exits
InstallFails ==
    /\ pc = "install"
    /\ IsTrue(finalAnswers.runInstall)
    /\ installRuns' = installRuns + 1
    /\ installCmd' = installCommand(finalAnswers.packageManager)
    /\ Exit(1, "Error running install")
    /\ UNCHANGED <<inputVars, promptVars, renderVars, fsVars, thrown>>

Next ==
    \/ RejectCompiler
    \/ RejectPackageManager
    \/ StartInit
    \/ AnswerProjectName
    \/ RejectProjectName
    \/ AnswerCompiler
    \/ AnswerPackageManager
    \/ AnswerRunInstall
    \/ CancelPrompt
    \/ PromptFails
    \/ Resolve
    \/ EnsureDir
    \/ EnsureDirFails
    \/ WriteFile
    \/ WriteFileFails
    \/ SkipInstall
    \/ InstallSucceeds
    \/ InstallFails

Spec == Init /\ [][Next]_vars

(* ------------------------ vocabulary of the claims ---------------------- *)

Range(seq) == {seq[i] : i \in 1..Len(seq)}

\* the files the statements executed so far have written
WrittenSoFar == {rendered[i] : i \in 1..(Len(rendered) - Len(pending))}

\* a value was given on the command line
Supplied(v) == v # Undefined

\* the run got past the flag checks and into initProject
EnteredInit ==
    /\ pc # "start"
    /\ "Invalid compiler" \notin stdout
    /\ "Invalid package manager" \notin stdout

\* the runInstall question is among those handed to inquirer
RunInstallAsked == Q_runInstall \in Range(questions)

NoQuestionIssued == questions = <<>>

NothingCreated == dirs = {} /\ disk = {}

Materializing == pc \in {"ensureDir", "write", "install"} \/ ~NothingCreated

Completed == pc = "exited" /\ Success \in stdout

InstallFailed == pc = "exited" /\ "Error running install" \in stdout

IsFsError(e) == IsPrefix(<<"E","A","C","C","E","S",":">>, e.message)

CoreFiles(pd) ==
    { Join(pd, F_package_json), Join(pd, F_tsconfig_json), Join(pd, F_gitignore),
      Join(pd, F_readme), Join(Join(pd, F_src), F_index_ts) }

PnpmFiles(pd) == { Join(pd, F_npmrc), Join(pd, F_pnpm_workspace) }

\* <cwd>/<projectName>
ClaimedProjectDir == Join(cwd, NameChars(finalAnswers.projectName))

(* -------------------------------- claims -------------------------------- *)

\* C1: a run whose --compiler value is supplied and is not tsc, esbuild or swc,
\* or whose --package-manager value is supplied and is not npm or pnpm, exits
\* with status 1 without having issued a question, created a directory or
\* file, or launched the install command.
C1_InvalidEnumRejected ==
    (\/ (Supplied(argv.compiler) /\ argv.compiler.s \notin validCompilers)
     \/ (Supplied(argv.packageManager) /\ argv.packageManager.s \notin validPackageManagers))
    => (pc # "start" =>
            /\ pc = "exited"
            /\ exitCode = 1
            /\ NoQuestionIssued
            /\ NothingCreated
            /\ installRuns = 0)

\* C2: a positional project name that does not match ^[a-z0-9-]+$ ends the run
\* with a non-zero status before any question or file, so every configuration
\* that reaches materialization has a non-empty projectName matching the
\* pattern.
C2_ArgNameValidated ==
    /\ (Supplied(argv.projectName) /\ ~MatchesNameRegex(argv.projectName.s))
        => (pc # "start" =>
                /\ pc = "exited"
                /\ exitCode = 1
                /\ NoQuestionIssued
                /\ NothingCreated)
    /\ Materializing =>
        /\ finalAnswers.projectName.tag = "string"
        /\ MatchesNameRegex(finalAnswers.projectName.s)

\* C3: the runInstall question is issued exactly when --install was not given
\* and projectName or compiler was not supplied; when both were supplied and
\* --install was not given the question is skipped and runInstall is false;
\* when --install was given the question is skipped and runInstall is true.
C3_RunInstallQuestion ==
    EnteredInit =>
        /\ RunInstallAsked <=>
              (/\ ~Supplied(argv.install)
               /\ (~Supplied(argv.projectName) \/ ~Supplied(argv.compiler)))
        /\ (Supplied(argv.projectName) /\ Supplied(argv.compiler) /\ ~Supplied(argv.install))
              => (~RunInstallAsked /\ options.runInstall = Bool(FALSE))
        /\ Supplied(argv.install)
              => (~RunInstallAsked /\ options.runInstall = Bool(TRUE))

\* C4: when the first directory or file is created the resolved runInstall is
\* a boolean and compiler and packageManager are each one of their enumerated
\* values.
C4_ConfigResolved ==
    Materializing =>
        /\ finalAnswers.runInstall \in {Bool(TRUE), Bool(FALSE)}
        /\ finalAnswers.compiler \in {Str(c) : c \in validCompilers}
        /\ finalAnswers.packageManager \in {Str(p) : p \in validPackageManagers}

\* C5: when runInstall is true and the install command fails, the process
\* exits with status 1, the command was run once only, the success message is
\* not printed, and every project file written before the install step is
\* still on disk.
C5_InstallFailure ==
    InstallFailed =>
        /\ IsTrue(finalAnswers.runInstall)
        /\ exitCode = 1
        /\ installRuns = 1
        /\ Success \notin stdout
        /\ disk = Range(rendered)
        /\ CoreFiles(ClaimedProjectDir) \subseteq disk

C5_Witness ==
    /\ InstallFailed
    /\ finalAnswers.packageManager = Str("pnpm")
    /\ Cardinality(disk) = 7

\* C6: cancelling while a question is pending exits with status 0 with no
\* directory, file or install; any other error thrown during the run exits
\* with status 1.
C6_CancelAndOtherErrors ==
    /\ thrown = ExitPromptError
        => (pc = "exited" /\ exitCode = 0 /\ NothingCreated /\ installRuns = 0)
    /\ thrown \notin {NoError, ExitPromptError}
        => (pc = "exited" /\ exitCode = 1)

\* C7: a failing directory-creation or file-write step is not retried: the
\* process exits with status 1, no later file is written, no install is
\* launched, and the files written before the failing step remain.
C7_FsFailure ==
    IsFsError(thrown) =>
        /\ pc = "exited"
        /\ exitCode = 1
        /\ installRuns = 0
        /\ Success \notin stdout
        /\ disk = WrittenSoFar
        /\ pending # <<>>

\* C8: the written manifest's scripts and dev-dependencies are the fixed
\* mapping of the compiler, and no configuration with any other compiler value
\* reaches the renderer.
C8_ManifestByCompiler ==
    Materializing =>
        LET c == finalAnswers.compiler
            m == packageJson
        IN  /\ c \in {Str("tsc"), Str("esbuild"), Str("swc")}
            /\ m.scripts.dev = "tsx watch src/index.ts"
            /\ {"@types/node", "tsx"} \subseteq m.devDependencies
            /\ c = Str("tsc") =>
                  /\ m.scripts.build = "tsc"
                  /\ m.scripts.start = "node dist/index.js"
                  /\ m.devDependencies = {"typescript", "@types/node", "tsx"}
            /\ c = Str("esbuild") =>
                  /\ m.scripts.build =
                       "esbuild src/index.ts --bundle --platform=node --outfile=dist/index.js"
                  /\ m.scripts.start = "node dist/index.js"
                  /\ m.devDependencies = {"esbuild", "@types/node", "tsx"}
            /\ c = Str("swc") =>
                  /\ m.scripts.build = "swc src -d dist"
                  /\ m.scripts.start = "node dist/src/index.js"
                  /\ m.devDependencies = {"@swc/cli", "@swc/core", "@types/node", "tsx"}

\* C9: after a run that completes successfully the files written are exactly
\* package.json, tsconfig.json, .gitignore, README.md and src/index.ts inside
\* <cwd>/<projectName>, plus .npmrc and pnpm-workspace.yaml for pnpm and
\* nothing more for npm; nothing is written outside that directory.
C9_FilesWritten ==
    Completed =>
        LET pd == ClaimedProjectDir
        IN  /\ finalAnswers.packageManager = Str("pnpm")
                => disk = CoreFiles(pd) \cup PnpmFiles(pd)
            /\ finalAnswers.packageManager = Str("npm")
                => disk = CoreFiles(pd)
            /\ CoreFiles(pd) \subseteq disk
            /\ \A f \in disk : IsPrefix(pd \o <<"/">>, f)

C9_Witness ==
    /\ Completed
    /\ finalAnswers.packageManager = Str("pnpm")
    /\ finalAnswers.projectName = Str(N_demo)
    /\ answers.packageManager = Str("pnpm")
    /\ disk = CoreFiles(ClaimedProjectDir) \cup PnpmFiles(ClaimedProjectDir)

\* C10: prompts come before file writes and file writes before the install:
\* nothing is created while a question is unanswered, and the install command
\* is launched at most once, only when runInstall is true, only after every
\* project file has been written, and always as 'npm install' for npm and
\* 'pnpm install' for pnpm.
C10_StepOrder ==
    /\ ~NothingCreated => qidx > Len(questions)
    /\ installRuns <= 1
    /\ ~IsTrue(finalAnswers.runInstall) => installRuns = 0
    /\ installRuns > 0 =>
        /\ rendered # <<>>
        /\ pending = <<>>
        /\ disk = Range(rendered)
        /\ \/ (finalAnswers.packageManager = Str("npm") /\ installCmd = "npm install")
           \/ (finalAnswers.packageManager = Str("pnpm") /\ installCmd = "pnpm install")

====
